---- MODULE Spec2Model ----
(***************************************************************************)
(* Model of the clone pipeline of codecrafters-git-go: the pkt-line codec  *)
(* (MakePktLine, ParsePktLine, ReadPktLines), the side-band unwrapping     *)
(* (unwrapSideBand), reference discovery and negotiation, and the packfile *)
(* parser (ParsePackfile), all of src/unnamed/part_000, and the command    *)
(* that runs them in sequence, CloneCommand.Execute of                     *)
(* src/app/commands/clone.go.                                              *)
(*                                                                         *)
(* Bytes are integers 0..255 and byte strings are sequences of bytes.      *)
(***************************************************************************)
EXTENDS Integers, Sequences, FiniteSets, TLC

VARIABLES
    op,         \* which operation this behaviour runs
    in_frames,  \* the payloads the input stream was encoded from (<<>> = flush)
    in_tail,    \* bytes that follow the encoded frames in the input stream
    body,       \* resp.Body: the bytes not yet returned by Read
    lines,      \* ReadPktLines: the lines slice
    rpl_state,  \* ReadPktLines: "reading", "done", "error", "panic"
    rpl_reads,  \* number of Read calls that returned data, counted up to 2
    rpl_cut,    \* TRUE once a Read reported a transport error
    ppl_out,    \* ParsePktLine: its return value, or the "none" record
    in_adv,     \* the advertisement the discovery response was built from
    dr_state,   \* DiscoverReferences and NegotiateWithServer: the step reached
    references, \* the map from reference name to hash
    neg_out,    \* NegotiateWithServer: its return value, or the "none" record
    sb_data,    \* unwrapSideBand: data, the bytes not yet processed
    sb_result,  \* unwrapSideBand: result
    sb_state,   \* FetchPackfile: "request"; unwrapSideBand: "running", "done", "error", "panic"
    sb_err,     \* unwrapSideBand: the error returned, [kind, msg]
    sb_consumed,\* number of pkt-line frames the loop has consumed
    fp_out,     \* FetchPackfile: its return value, or the "none" record
    in_pack,    \* what the packfile buffer was built from
    pp_data,    \* ParsePackfile: data
    pp_phase,   \* ParsePackfile: "start", "entries", "done" (nil returned), "error"
    pp_err,     \* ParsePackfile: the error returned, "none" when none
    pp_count,   \* ParsePackfile: objectCount
    pp_offset,  \* ParsePackfile: offset
    pp_i,       \* ParsePackfile: i
    store,      \* .git/objects: the objects WriteGitObject was called with
    mpl_out,    \* MakePktLine: its return value, or the "none" record
    poh_out,    \* parseObjectHeader: its return value, or the "none" record
    cl_stage,   \* CloneCommand.Execute: the step reached
    cl_err,     \* CloneCommand.Execute: the stage whose error was returned, "none" when none
    cl_head,    \* setupHeadReference: "none" (not called), "ok", "error"
    cl_checkout \* checkoutWorkingDirectory: "none" (not called), "ok", "error"

pktVars == <<in_frames, in_tail, body, lines, rpl_state, rpl_reads, rpl_cut, ppl_out>>

refVars == <<in_adv, dr_state, references, neg_out>>

sbVars == <<sb_data, sb_result, sb_state, sb_err, sb_consumed, fp_out>>

packVars == <<in_pack, pp_data, pp_phase, pp_err, pp_count, pp_offset, pp_i, store>>

fnVars == <<mpl_out, poh_out>>

cloneVars == <<cl_stage, cl_err, cl_head, cl_checkout>>

vars == <<op, pktVars, refVars, sbVars, packVars, fnVars, cloneVars>>

-----------------------------------------------------------------------------
(* Bounds of the model *)

\* most frames in a generated pkt-line stream
MaxFrames == 2

-----------------------------------------------------------------------------
(* Byte strings *)

Min(a, b) == IF a < b THEN a ELSE b

\* s[from:to] of Go, 0-based, to exclusive
Slice(s, from, to) == SubSeq(s, from + 1, to)

\* s[from:] of Go
From(s, from) == SubSeq(s, from + 1, Len(s))

RECURSIVE Flatten(_)
Flatten(ss) == IF ss = <<>> THEN <<>> ELSE Head(ss) \o Flatten(Tail(ss))

\* all sequences over S of length 0..n
SeqsUpTo(S, n) == UNION {[1..k -> S] : k \in 0..n}

\* unicode.IsSpace on the ASCII range, as strings.TrimSpace uses it
IsSpace(b) == b \in {9, 10, 11, 12, 13, 32}

RECURSIVE TrimLeft(_)
TrimLeft(s) == IF s # <<>> /\ IsSpace(Head(s)) THEN TrimLeft(Tail(s)) ELSE s

RECURSIVE TrimRight(_)
TrimRight(s) ==
    IF s # <<>> /\ IsSpace(s[Len(s)]) THEN TrimRight(SubSeq(s, 1, Len(s) - 1)) ELSE s

\* strings.TrimSpace
TrimSpace(s) == TrimRight(TrimLeft(s))

-----------------------------------------------------------------------------
(* strconv.ParseInt(s, 16, 32) and fmt.Sprintf("%04x", n) *)

\* value of one base-16 digit, -1 when the byte is none
HexVal(b) ==
    IF b \in 48..57 THEN b - 48
    ELSE IF b \in 97..102 THEN b - 87
    ELSE IF b \in 65..70 THEN b - 55
    ELSE -1

RECURSIVE ParseUint16(_, _)
\* digits of s accumulated onto acc; -1 on a byte that is no hex digit
ParseUint16(s, acc) ==
    IF s = <<>> THEN acc
    ELSE IF HexVal(Head(s)) < 0 THEN -1
    ELSE ParseUint16(Tail(s), acc * 16 + HexVal(Head(s)))

\* strconv.ParseInt(s, 16, 32): an optional sign, then one or more hex digits
ParseInt(s) ==
    LET signed == s # <<>> /\ Head(s) \in {43, 45}
        neg == s # <<>> /\ Head(s) = 45
        digits == IF signed THEN Tail(s) ELSE s
        v == IF digits = <<>> THEN -1 ELSE ParseUint16(digits, 0)
    IN  IF v < 0 THEN [err |-> TRUE, val |-> 0]
        ELSE [err |-> FALSE, val |-> IF neg THEN 0 - v ELSE v]

HexChar(d) == IF d < 10 THEN 48 + d ELSE 87 + d

RECURSIVE HexDigits(_)
HexDigits(n) ==
    IF n < 16 THEN <<HexChar(n)>> ELSE Append(HexDigits(n \div 16), HexChar(n % 16))

\* fmt.Sprintf("%04x", n): lower-case hex, zero-padded to at least 4 digits
Sprintf04x(n) ==
    LET d == HexDigits(n)
    IN  IF Len(d) >= 4 THEN d ELSE [k \in 1..(4 - Len(d)) |-> 48] \o d

-----------------------------------------------------------------------------
(* The pkt-line codec *)

\* MakePktLine with the length of the data alone in the header
MakePktLine_DataLength(data) ==
    IF data = <<>> THEN <<48, 48, 48, 48>>
    ELSE Sprintf04x(Len(data)) \o data

\* MakePktLine: "0000" for the empty string, else the length header and the data
MakePktLine(data) ==
    IF data = <<>> THEN <<48, 48, 48, 48>>
    ELSE Sprintf04x(Len(data) + 4) \o data

\* ParsePktLine(data): [status, kind, payload].  data[4:length] panics when
\* length exceeds the slice (taken with cap(data) = len(data)).
ParsePktLine(data) ==
    IF Len(data) < 4 THEN [status |-> "error", kind |-> "", payload |-> <<>>]
    ELSE LET r == ParseInt(Slice(data, 0, 4))
         IN  IF r.err THEN [status |-> "error", kind |-> "", payload |-> <<>>]
             ELSE IF r.val = 0 THEN [status |-> "ok", kind |-> "flush", payload |-> <<>>]
             ELSE IF r.val < 4 THEN [status |-> "error", kind |-> "", payload |-> <<>>]
             ELSE IF r.val > Len(data) THEN [status |-> "panic", kind |-> "", payload |-> <<>>]
             ELSE [status |-> "ok", kind |-> "data", payload |-> Slice(data, 4, r.val)]

\* a call of MakePktLine on the payload
MPL_Call ==
    /\ op = "MakePktLine"
    /\ ~mpl_out.called
    /\ mpl_out' = [called |-> TRUE, out |-> MakePktLine(in_frames[1])]
    /\ UNCHANGED <<op, poh_out, cloneVars, pktVars, refVars, sbVars, packVars>>

\* the size of the read buffer of ReadPktLines
BufSize == 1024

RECURSIVE ProcessChunk(_, _)
\* the inner loop of ReadPktLines over one read's bytes: [status, lines]
ProcessChunk(data, ls) ==
    IF Len(data) = 0 \/ Len(data) < 4 THEN [status |-> "ok", lines |-> ls]
    ELSE LET r == ParseInt(Slice(data, 0, 4))
         IN  IF r.err THEN [status |-> "error", lines |-> <<>>]
             ELSE IF r.val = 0 THEN ProcessChunk(From(data, 4), Append(ls, <<>>))
             ELSE IF r.val > Len(data) THEN [status |-> "ok", lines |-> ls]
             ELSE IF r.val < 4 THEN [status |-> "panic", lines |-> <<>>]
             ELSE ProcessChunk(From(data, r.val),
                               Append(ls, TrimSpace(Slice(data, 4, r.val))))

\* ReadPktLines runs: called directly, or by DiscoverReferences on the response
Reading ==
    \/ op = "ReadPktLines"
    \/ op \in {"DiscoverReferences", "Clone"} /\ dr_state = "reading"

\* one iteration of the read loop that got n > 0 bytes; eof: Read also returned io.EOF
RPL_Read ==
    /\ Reading
    /\ rpl_state = "reading"
    /\ body # <<>>
    /\ \E n \in 1..Min(BufSize, Len(body)), eof \in BOOLEAN :
         /\ eof => n = Len(body)
         /\ LET r == ProcessChunk(Slice(body, 0, n), lines)
            IN  /\ lines' = r.lines
                /\ rpl_state' = IF r.status # "ok" THEN r.status
                                ELSE IF eof THEN "done" ELSE "reading"
         /\ body' = From(body, n)
         /\ rpl_reads' = Min(rpl_reads + 1, 2)
    /\ UNCHANGED <<op, fnVars, cloneVars, in_frames, in_tail, rpl_cut, ppl_out, refVars, sbVars, packVars>>

\* Read returns n = 0 at the end of the body: the loop breaks, lines are returned
RPL_ReadEnd ==
    /\ Reading
    /\ rpl_state = "reading"
    /\ body = <<>>
    /\ rpl_state' = "done"
    /\ UNCHANGED <<op, fnVars, cloneVars, in_frames, in_tail, body, lines, rpl_reads, rpl_cut, ppl_out, refVars, sbVars, packVars>>

\* Read fails with an error other than io.EOF: with n > 0 the error is
\* returned, with n = 0 the loop breaks and the lines read so far are returned
RPL_ReadFail ==
    /\ Reading
    /\ rpl_state = "reading"
    /\ body # <<>>
    /\ \E some \in BOOLEAN :
         /\ rpl_state' = IF some THEN "error" ELSE "done"
         /\ lines' = IF some THEN <<>> ELSE lines
    /\ rpl_cut' = TRUE
    /\ UNCHANGED <<op, fnVars, cloneVars, in_frames, in_tail, body, rpl_reads, ppl_out, refVars, sbVars, packVars>>

\* a call of ParsePktLine on the whole input
PPL_Call ==
    /\ op = "ParsePktLine"
    /\ ppl_out.status = "none"
    /\ ppl_out' = ParsePktLine(body)
    /\ UNCHANGED <<op, fnVars, cloneVars, in_frames, in_tail, body, lines, rpl_state, rpl_reads, rpl_cut, refVars, sbVars, packVars>>

-----------------------------------------------------------------------------
(* Reference discovery and negotiation *)

\* "HEAD", "refs/heads/main", "refs/heads/master"
NameHEAD == <<72, 69, 65, 68>>
NameMain == <<114, 101, 102, 115, 47, 104, 101, 97, 100, 115, 47, 109, 97, 105, 110>>
NameMaster ==
    <<114, 101, 102, 115, 47, 104, 101, 97, 100, 115, 47, 109, 97, 115, 116, 101, 114>>

RECURSIVE IndexByte(_, _, _)
\* 0-based index of the first b in s at or after from, -1 when there is none
IndexByte(s, b, from) ==
    IF from >= Len(s) THEN -1
    ELSE IF s[from + 1] = b THEN from
    ELSE IndexByte(s, b, from + 1)

\* references[ref] = sha
MapPut(m, k, v) == [x \in DOMAIN m \cup {k} |-> IF x = k THEN v ELSE m[x]]

RECURSIVE BuildReferences(_, _)
\* the loop of DiscoverReferences over the lines ReadPktLines returned
BuildReferences(ls, refs) ==
    IF ls = <<>> THEN refs
    ELSE LET line == Head(ls)
             sp == IndexByte(line, 32, 0)
         IN  IF line = <<>> \/ line[1] = 35 THEN BuildReferences(Tail(ls), refs)
             ELSE IF sp < 0 THEN BuildReferences(Tail(ls), refs)
             ELSE BuildReferences(Tail(ls),
                     MapPut(refs, TrimSpace(From(line, sp + 1)), Slice(line, 0, sp)))

\* NegotiateWithServer with the two branch names tried in the other order
NegotiateWithServer_MasterFirst(refs) ==
    IF NameHEAD \in DOMAIN refs
    THEN [err |-> FALSE, sha |-> refs[NameHEAD], called |-> TRUE]
    ELSE IF NameMaster \in DOMAIN refs
    THEN [err |-> FALSE, sha |-> refs[NameMaster], called |-> TRUE]
    ELSE IF NameMain \in DOMAIN refs
    THEN [err |-> FALSE, sha |-> refs[NameMain], called |-> TRUE]
    ELSE [err |-> TRUE, sha |-> <<>>, called |-> TRUE]

\* NegotiateWithServer: [err, sha, called]
NegotiateWithServer(refs) ==
    IF NameHEAD \in DOMAIN refs
    THEN [err |-> FALSE, sha |-> refs[NameHEAD], called |-> TRUE]
    ELSE IF NameMain \in DOMAIN refs
    THEN [err |-> FALSE, sha |-> refs[NameMain], called |-> TRUE]
    ELSE IF NameMaster \in DOMAIN refs
    THEN [err |-> FALSE, sha |-> refs[NameMaster], called |-> TRUE]
    ELSE [err |-> TRUE, sha |-> <<>>, called |-> TRUE]

\* DiscoverReferences sends the GET: a transport error and a status other than
\* 200 are returned as errors, a 200 response is handed to ReadPktLines
DR_Request ==
    /\ op \in {"DiscoverReferences", "Clone"}
    /\ dr_state = "request"
    /\ \E outcome \in {"ok", "neterr", "status"} :
         dr_state' = IF outcome = "ok" THEN "reading" ELSE "error"
    /\ UNCHANGED <<op, fnVars, cloneVars, pktVars, in_adv, references, neg_out, sbVars, packVars>>

\* ReadPktLines has returned: its error is returned, else the map is built
DR_Build ==
    /\ op \in {"DiscoverReferences", "Clone"}
    /\ dr_state = "reading"
    /\ rpl_state # "reading"
    /\ dr_state' = IF rpl_state = "done" THEN "built" ELSE rpl_state
    /\ references' = IF rpl_state = "done" THEN BuildReferences(lines, <<>>) ELSE <<>>
    /\ UNCHANGED <<op, fnVars, cloneVars, pktVars, in_adv, neg_out, sbVars, packVars>>

\* NegotiateWithServer is called with the map
NEG_Call ==
    /\ op \in {"DiscoverReferences", "NegotiateWithServer", "Clone"}
    /\ dr_state = "built"
    /\ neg_out' = NegotiateWithServer(references)
    /\ dr_state' = "negotiated"
    /\ UNCHANGED <<op, fnVars, cloneVars, pktVars, in_adv, references, sbVars, packVars>>

-----------------------------------------------------------------------------
(* FetchPackfile and unwrapSideBand *)

NoErr == [kind |-> "none", msg |-> <<>>]

\* unwrapSideBand with the side-band channel byte kept in the result
UnwrapStep_KeepTag(data, result) ==
    IF Len(data) = 0 \/ Len(data) < 4
    THEN [state |-> "done", data |-> data, result |-> result, err |-> NoErr, frames |-> 0]
    ELSE LET r == ParseInt(Slice(data, 0, 4))
         IN  IF r.err
             THEN [state |-> "error", data |-> data, result |-> <<>>,
                   err |-> [kind |-> "header", msg |-> Slice(data, 0, 4)], frames |-> 0]
             ELSE IF r.val = 0
             THEN [state |-> "running", data |-> From(data, 4), result |-> result,
                   err |-> NoErr, frames |-> 1]
             ELSE IF r.val > Len(data)
             THEN [state |-> "error", data |-> data, result |-> <<>>,
                   err |-> [kind |-> "incomplete", msg |-> <<>>], frames |-> 0]
             ELSE IF r.val < 0
             THEN [state |-> "panic", data |-> data, result |-> <<>>, err |-> NoErr, frames |-> 0]
             ELSE [state |-> "running", data |-> From(data, r.val),
                   result |-> IF r.val >= 5 /\ data[5] = 1
                              THEN result \o Slice(data, 4, r.val) ELSE result,
                   err |-> NoErr, frames |-> 1]

\* one pass of the loop of unwrapSideBand, its condition included:
\* [state, data, result, err, frames consumed]
UnwrapStep(data, result) ==
    IF Len(data) = 0 \/ Len(data) < 4
    THEN [state |-> "done", data |-> data, result |-> result, err |-> NoErr, frames |-> 0]
    ELSE LET r == ParseInt(Slice(data, 0, 4))
         IN  IF r.err
             THEN [state |-> "error", data |-> data, result |-> <<>>,
                   err |-> [kind |-> "header", msg |-> Slice(data, 0, 4)], frames |-> 0]
             ELSE IF r.val = 0
             THEN [state |-> "running", data |-> From(data, 4), result |-> result,
                   err |-> NoErr, frames |-> 1]
             ELSE IF r.val > Len(data)
             THEN [state |-> "error", data |-> data, result |-> <<>>,
                   err |-> [kind |-> "incomplete", msg |-> <<>>], frames |-> 0]
             ELSE IF r.val < 0
             THEN [state |-> "panic", data |-> data, result |-> <<>>, err |-> NoErr, frames |-> 0]
             ELSE [state |-> "running", data |-> From(data, r.val),
                   result |-> IF r.val >= 5 /\ data[5] = 1
                              THEN result \o Slice(data, 5, r.val) ELSE result,
                   err |-> NoErr, frames |-> 1]

\* FetchPackfile posts the request: a transport error and a status other than
\* 200 are returned as errors, the body of a 200 response is read whole and
\* handed to unwrapSideBand
FP_Request ==
    /\ op \in {"FetchPackfile", "Clone"}
    /\ sb_state = "request"
    /\ \E outcome \in {"ok", "neterr", "status"} :
         /\ sb_state' = IF outcome = "ok" THEN "running" ELSE "error"
         /\ sb_err' = IF outcome = "ok" THEN NoErr ELSE [kind |-> outcome, msg |-> <<>>]
    /\ UNCHANGED <<op, fnVars, cloneVars, pktVars, refVars, packVars, sb_data, sb_result, sb_consumed, fp_out>>

SB_Step ==
    /\ op \in {"FetchPackfile", "unwrapSideBand", "Clone"}
    /\ sb_state = "running"
    /\ LET r == UnwrapStep(sb_data, sb_result)
       IN  /\ sb_state' = r.state
           /\ sb_data' = r.data
           /\ sb_result' = r.result
           /\ sb_err' = r.err
           /\ sb_consumed' = sb_consumed + r.frames
    /\ UNCHANGED <<op, fnVars, cloneVars, pktVars, refVars, packVars, fp_out>>

\* FetchPackfile returns what unwrapSideBand returned, or the error
FP_Return ==
    /\ op \in {"FetchPackfile", "Clone"}
    /\ sb_state \in {"done", "error"}
    /\ ~fp_out.returned
    /\ fp_out' = [returned |-> TRUE, err |-> sb_state = "error",
                  data |-> IF sb_state = "error" THEN <<>> ELSE sb_result]
    /\ UNCHANGED <<op, fnVars, cloneVars, pktVars, refVars, packVars, sb_data, sb_result, sb_state, sb_err, sb_consumed>>

-----------------------------------------------------------------------------
(* compress/zlib as ParsePackfile uses it: zlib.NewReader on a bytes.Reader,   *)
(* then io.ReadAll.  The zlib header, the stored blocks of deflate and the     *)
(* Adler-32 trailer are decoded as the library decodes them; a Huffman-coded   *)
(* block is not decoded and gives the status "huffman".  A bytes.Reader is an  *)
(* io.ByteReader, so the library reads no byte past the end of the stream.     *)

RECURSIVE SumBytes(_)
SumBytes(s) == IF s = <<>> THEN 0 ELSE Head(s) + SumBytes(Tail(s))

RECURSIVE AdlerB(_, _)
\* the sum of the running sums a of Adler-32, a starting from acc
AdlerB(s, acc) == IF s = <<>> THEN 0 ELSE (acc + Head(s)) + AdlerB(Tail(s), acc + Head(s))

\* adler32.Checksum(s), as the 4 big-endian bytes of the zlib trailer
Adler32(s) ==
    LET a == (1 + SumBytes(s)) % 65521
        b == AdlerB(s, 1) % 65521
    IN  <<b \div 256, b % 256, a \div 256, a % 256>>

\* a zlib stream of content: header 78 01, one final stored block, Adler-32
Deflate(content) ==
    LET n == Len(content)
    IN  <<120, 1, 1, n % 256, n \div 256, 255 - (n % 256), 255 - (n \div 256)>>
        \o content \o Adler32(content)

RECURSIVE InflateBlocks(_, _, _)
\* the deflate blocks of data from the 0-based position pos on, out being the
\* bytes produced so far: [status, content, consumed]
InflateBlocks(data, pos, out) ==
    LET fail == [status |-> "body", content |-> <<>>, consumed |-> 0]
    IN  IF pos >= Len(data) THEN fail
        ELSE LET b == data[pos + 1]
                 final == b % 2 = 1
                 typ == (b \div 2) % 4
             IN  IF typ = 3 THEN fail
                 ELSE IF typ # 0 THEN [status |-> "huffman", content |-> <<>>, consumed |-> 0]
                 ELSE IF pos + 5 > Len(data) THEN fail
                 ELSE LET n == data[pos + 2] + 256 * data[pos + 3]
                          nn == data[pos + 4] + 256 * data[pos + 5]
                          end == pos + 5 + n
                      IN  IF nn # 65535 - n THEN fail
                          ELSE IF end > Len(data) THEN fail
                          ELSE IF ~final
                          THEN InflateBlocks(data, end, out \o Slice(data, pos + 5, end))
                          ELSE IF end + 4 > Len(data) THEN fail
                          ELSE IF Slice(data, end, end + 4)
                                  # Adler32(out \o Slice(data, pos + 5, end)) THEN fail
                          ELSE [status |-> "ok",
                                content |-> out \o Slice(data, pos + 5, end),
                                consumed |-> end + 4]

\* zlib.NewReader(bytes.NewReader(data)) and io.ReadAll: status "header" when
\* NewReader fails, "body" when ReadAll fails, else "ok" with the content and
\* the count of bytes read from data (reader.Size() - reader.Len())
Inflate(data) ==
    LET bad == [status |-> "header", content |-> <<>>, consumed |-> 0]
    IN  IF Len(data) < 2 THEN bad
        ELSE IF data[1] % 16 # 8 \/ data[1] \div 16 > 7
                \/ (data[1] * 256 + data[2]) % 31 # 0 THEN bad
        ELSE IF (data[2] \div 32) % 2 = 1
        THEN IF Len(data) < 6 \/ Slice(data, 2, 6) # <<0, 0, 0, 1>> THEN bad
             ELSE InflateBlocks(data, 6, <<>>)
        ELSE InflateBlocks(data, 2, <<>>)

-----------------------------------------------------------------------------
(* ParsePackfile *)

\* "PACK"
Magic == <<80, 65, 67, 75>>

\* the big-endian uint32 at the 0-based offset off of data
BE32(data, off) ==
    ((data[off + 1] * 256 + data[off + 2]) * 256 + data[off + 3]) * 256 + data[off + 4]

RECURSIVE Pow2(_)
Pow2(n) == IF n = 0 THEN 1 ELSE 2 * Pow2(n - 1)

RECURSIVE HeaderRest(_, _, _, _)
\* the loop of parseObjectHeader over the bytes after the first: <<size, offset>>
HeaderRest(data, offset, shift, size) ==
    IF offset >= Len(data) THEN <<size, offset>>
    ELSE LET b == data[offset + 1]
             sz == size + (b % 128) * Pow2(shift)
         IN  IF b < 128 THEN <<sz, offset + 1>>
             ELSE HeaderRest(data, offset + 1, shift + 7, sz)

\* parseObjectHeader with the type taken from all four high bits of the first byte
parseObjectHeader_NoMask(data) ==
    IF Len(data) = 0 THEN <<0, 0, 0>>
    ELSE LET firstByte == data[1]
             objType == firstByte \div 16
             size == firstByte % 16
         IN  IF firstByte < 128 THEN <<objType, size, 1>>
             ELSE LET r == HeaderRest(data, 1, 4, size)
                  IN  <<objType, r[1], r[2]>>

\* parseObjectHeader(data): <<type, size, bytes consumed>>
parseObjectHeader(data) ==
    IF Len(data) = 0 THEN <<0, 0, 0>>
    ELSE LET firstByte == data[1]
             objType == (firstByte \div 16) % 8
             size == firstByte % 16
         IN  IF firstByte < 128 THEN <<objType, size, 1>>
             ELSE LET r == HeaderRest(data, 1, 4, size)
                  IN  <<objType, r[1], r[2]>>

\* a call of parseObjectHeader on the bytes
POH_Call ==
    /\ op = "parseObjectHeader"
    /\ ~poh_out.called
    /\ poh_out' = [called |-> TRUE, out |-> parseObjectHeader(pp_data)]
    /\ UNCHANGED <<op, mpl_out, cloneVars, pktVars, refVars, sbVars, packVars>>

RECURSIVE SkipVarint(_, _)
\* the offset after the bytes with bit 7 set that start at offset
SkipVarint(data, offset) ==
    IF offset < Len(data) /\ data[offset + 1] >= 128 THEN SkipVarint(data, offset + 1)
    ELSE offset

\* parseDeltaHeaderSize(data): the bytes taken by two size varints
parseDeltaHeaderSize(data) ==
    LET o1 == SkipVarint(data, 0)
        o2 == IF o1 < Len(data) THEN o1 + 1 ELSE o1
        o3 == SkipVarint(data, o2)
    IN  IF o3 < Len(data) THEN o3 + 1 ELSE o3

\* the checks of the header without the check of the version
CheckHeader_AnyVersion(data) ==
    IF Len(data) < 12 THEN "short"
    ELSE IF Slice(data, 0, 4) # Magic THEN "magic"
    ELSE "none"

\* the checks of ParsePackfile on the 12-byte header: the error, or "none"
CheckHeader(data) ==
    IF Len(data) < 12 THEN "short"
    ELSE IF Slice(data, 0, 4) # Magic THEN "magic"
    ELSE IF BE32(data, 4) # 2 THEN "version"
    ELSE "none"

\* the GitObjectType of an undeltified pack type, "" for the one without
TypeName(t) ==
    IF t = 1 THEN "commit" ELSE IF t = 2 THEN "tree" ELSE IF t = 3 THEN "blob" ELSE ""

\* the fixed skip without the test against the end of the buffer
SkipFixed_Uncapped(data, offset) == offset + 50

\* the fixed skip after a delta whose bytes zlib does not accept
SkipFixed(data, offset) == IF offset + 50 < Len(data) THEN offset + 50 ELSE Len(data)

\* one pass of the loop over the objects, from its condition to the check at
\* its end: [phase, err, offset, i, store]
ParseEntry(data, objectCount, offset, i, st) ==
    LET fail(e) == [phase |-> "error", err |-> e, offset |-> offset, i |-> i, store |-> st]
        hdr == parseObjectHeader(From(data, offset))
        objType == hdr[1]
        off1 == offset + hdr[3]
        \* the check that ends the pass
        finish(off, st2) ==
            IF off >= Len(data)
            THEN IF i < objectCount - 1
                 THEN [phase |-> "error", err |-> "eof after object", offset |-> off,
                       i |-> i, store |-> st2]
                 ELSE [phase |-> "done", err |-> "none", offset |-> off, i |-> i,
                       store |-> st2]
            ELSE IF i + 1 < objectCount
            THEN [phase |-> "entries", err |-> "none", offset |-> off, i |-> i + 1,
                  store |-> st2]
            ELSE [phase |-> "done", err |-> "none", offset |-> off, i |-> i + 1,
                  store |-> st2]
    IN  IF offset >= Len(data) THEN fail("eof at object")
        ELSE IF hdr[3] = 0 THEN fail("object header")
        ELSE IF off1 >= Len(data) THEN fail("eof after header")
        ELSE IF objType \in {1, 2, 3, 4}
        THEN LET z == Inflate(From(data, off1))
             IN  IF z.status # "ok" THEN fail(z.status)
                 ELSE IF TypeName(objType) = "" THEN fail("unsupported type")
                 ELSE finish(off1 + z.consumed,
                             Append(st, [type |-> TypeName(objType), content |-> z.content]))
        ELSE IF objType \in {6, 7}
        THEN LET off2 == off1 + parseDeltaHeaderSize(From(data, off1))
                 z == Inflate(From(data, off2))
             IN  IF off2 >= Len(data) THEN finish(off2, st)
                 ELSE IF z.status = "huffman" THEN fail("huffman")
                 ELSE IF z.status # "ok" THEN finish(SkipFixed(data, off2), st)
                 ELSE finish(off2 + z.consumed, st)
        ELSE fail("unknown type")

\* the values offset takes during one pass of the loop before the last
\* assignment of the pass: at the start, after the object header, and for a
\* delta after its two sizes
PassOffsets(data, offset) ==
    LET hdr == parseObjectHeader(From(data, offset))
        off1 == offset + hdr[3]
    IN  {offset, off1}
        \cup (IF hdr[1] \in {6, 7} /\ hdr[3] > 0 /\ off1 < Len(data)
              THEN {off1 + parseDeltaHeaderSize(From(data, off1))} ELSE {})

\* ParsePackfile up to its loop: the header checks and the object count
PP_Header ==
    /\ op \in {"ParsePackfile", "Clone"}
    /\ pp_phase = "start"
    /\ LET e == CheckHeader(pp_data)
           n == IF e = "none" THEN BE32(pp_data, 8) ELSE 0
       IN  /\ pp_err' = e
           /\ pp_count' = n
           /\ pp_phase' = IF e # "none" THEN "error" ELSE IF n = 0 THEN "done" ELSE "entries"
           /\ pp_offset' = IF e = "none" /\ n > 0 THEN 12 ELSE 0
    /\ UNCHANGED <<op, fnVars, cloneVars, pktVars, refVars, sbVars, in_pack, pp_data, pp_i, store>>

\* one pass of the loop over the objects
PP_Entry ==
    /\ op \in {"ParsePackfile", "Clone"}
    /\ pp_phase = "entries"
    /\ LET r == ParseEntry(pp_data, pp_count, pp_offset, pp_i, store)
       IN  /\ pp_phase' = r.phase
           /\ pp_err' = r.err
           /\ pp_offset' = r.offset
           /\ pp_i' = r.i
           /\ store' = r.store
    /\ UNCHANGED <<op, fnVars, cloneVars, pktVars, refVars, sbVars, in_pack, pp_data, pp_count>>

-----------------------------------------------------------------------------
(* Inputs of the pkt-line codec *)

\* payloads of the generated frames: the empty one (a flush), plain text, and
\* text that starts or ends with white space or a newline
\* "", "a", "ab", "a\n", " a", "\n"
Payloads == {<<>>, <<97>>, <<97, 98>>, <<97, 10>>, <<32, 97>>, <<10>>}

FrameSeqs == SeqsUpTo(Payloads, MaxFrames)

\* what may follow the frames: nothing, half a header, a header below 4,
\* a frame cut short
Tails == {<<>>, <<48, 48>>, <<48, 48, 48, 50>>, <<48, 48, 48, 54, 97>>}

WireOf(frames, tail) == Flatten([k \in 1..Len(frames) |-> MakePktLine(frames[k])]) \o tail

NoParse == [status |-> "none", kind |-> "", payload |-> <<>>]

NoChoice == [err |-> FALSE, sha |-> <<>>, called |-> FALSE]

\* the reference stage is not running
RefsIdle ==
    /\ in_adv = <<>>
    /\ dr_state = "idle"
    /\ references = <<>>
    /\ neg_out = NoChoice

NoFetch == [returned |-> FALSE, err |-> FALSE, data |-> <<>>]

\* the fetch stage is not running
SbIdle ==
    /\ sb_data = <<>>
    /\ sb_result = <<>>
    /\ sb_state = "idle"
    /\ sb_err = NoErr
    /\ sb_consumed = 0
    /\ fp_out = NoFetch

NoPack == [entries |-> <<>>, damage |-> "none", cut |-> 0, trailer |-> FALSE]

\* the parse stage is not running
PackIdle ==
    /\ in_pack = NoPack
    /\ pp_data = <<>>
    /\ pp_phase = "idle"
    /\ pp_err = "none"
    /\ pp_count = 0
    /\ pp_offset = 0
    /\ pp_i = 0
    /\ store = <<>>

NoCall == [called |-> FALSE, out |-> <<>>]

\* MakePktLine and parseObjectHeader are not called on their own
FnIdle ==
    /\ mpl_out = NoCall
    /\ poh_out = NoCall

\* CloneCommand.Execute is not running
CloneIdle ==
    /\ cl_stage = "idle"
    /\ cl_err = "none"
    /\ cl_head = "none"
    /\ cl_checkout = "none"

InitPkt ==
    /\ FnIdle
    /\ CloneIdle
    /\ RefsIdle
    /\ SbIdle
    /\ PackIdle
    /\ op \in {"ReadPktLines", "ParsePktLine"}
    /\ in_frames \in FrameSeqs
    /\ in_tail \in Tails
    /\ body = WireOf(in_frames, in_tail)
    /\ lines = <<>>
    /\ rpl_state = "reading"
    /\ rpl_reads = 0
    /\ rpl_cut = FALSE
    /\ ppl_out = NoParse

NextPkt == RPL_Read \/ RPL_ReadEnd \/ RPL_ReadFail \/ PPL_Call

SpecPkt == InitPkt /\ [][NextPkt]_vars

-----------------------------------------------------------------------------
(* Inputs of MakePktLine *)

\* lengths of the payloads: none, the shortest, those around which the
\* length field gets a letter digit or one digit more, the longest payload of
\* a pkt-line (65516), and the first length whose field has 5 digits (65532)
MkLengths ==
    {0, 1, 2, 5, 6, 11, 12, 100, 251, 252, 1000, 4091, 4092, 65515, 65516, 65531, 65532}

\* the payload of n bytes that starts with the byte first and counts up
MkPayload(n, first) == [k \in 1..n |-> (first + k - 1) % 256]

InitMk ==
    /\ CloneIdle
    /\ RefsIdle
    /\ SbIdle
    /\ PackIdle
    /\ op = "MakePktLine"
    /\ \E n \in MkLengths, first \in {0, 10, 48, 97, 250} : in_frames = <<MkPayload(n, first)>>
    /\ in_tail = <<>>
    /\ body = <<>>
    /\ lines = <<>>
    /\ rpl_state = "idle"
    /\ rpl_reads = 0
    /\ rpl_cut = FALSE
    /\ ppl_out = NoParse
    /\ mpl_out = NoCall
    /\ poh_out = NoCall

NextMk == MPL_Call

SpecMk == InitMk /\ [][NextMk]_vars

-----------------------------------------------------------------------------
(* Inputs of reference discovery and negotiation *)

\* most lines in a generated advertisement
MaxAdLines == 2

\* hashes, abbreviated: "a1", "b2" (the code never looks into a hash)
ShaA == <<97, 49>>
ShaB == <<98, 50>>

\* "refs/heads/dev", and "HEAD" followed by NUL and a capability
NameDev == <<114, 101, 102, 115, 47, 104, 101, 97, 100, 115, 47, 100, 101, 118>>
NameHEADCaps == NameHEAD \o <<0, 99, 97, 112>>

\* the lines a server may advertise: the service announcement, a flush, and
\* reference lines with and without the capability suffix
AdLines ==
    {[kind |-> "comment", sha |-> <<>>, name |-> <<>>, caps |-> FALSE],
     [kind |-> "flush", sha |-> <<>>, name |-> <<>>, caps |-> FALSE],
     [kind |-> "ref", sha |-> ShaA, name |-> NameHEAD, caps |-> TRUE],
     [kind |-> "ref", sha |-> ShaA, name |-> NameHEAD, caps |-> FALSE],
     [kind |-> "ref", sha |-> ShaB, name |-> NameMain, caps |-> FALSE],
     [kind |-> "ref", sha |-> ShaB, name |-> NameMaster, caps |-> TRUE]}

\* the payload of an advertised line: "# s\n", "", "<sha> <name>[NUL cap]\n"
AdPayload(a) ==
    IF a.kind = "comment" THEN <<35, 32, 115, 10>>
    ELSE IF a.kind = "flush" THEN <<>>
    ELSE a.sha \o <<32>> \o a.name \o (IF a.caps THEN <<0, 99, 97, 112>> ELSE <<>>) \o <<10>>

\* the maps NegotiateWithServer is called with
RefNames == {NameHEAD, NameMain, NameMaster, NameDev, NameHEADCaps}

RefMaps == UNION {[D -> {ShaA, ShaB}] : D \in SUBSET RefNames}

InitRefs ==
    /\ FnIdle
    /\ CloneIdle
    /\ SbIdle
    /\ PackIdle
    /\ op \in {"DiscoverReferences", "NegotiateWithServer"}
    /\ IF op = "DiscoverReferences"
       THEN /\ in_adv \in SeqsUpTo(AdLines, MaxAdLines)
            /\ dr_state = "request"
            /\ references = <<>>
       ELSE /\ in_adv = <<>>
            /\ dr_state = "built"
            /\ references \in RefMaps
    /\ in_frames = [k \in 1..Len(in_adv) |-> AdPayload(in_adv[k])]
    /\ in_tail = <<>>
    /\ body = WireOf(in_frames, in_tail)
    /\ lines = <<>>
    /\ rpl_state = "reading"
    /\ rpl_reads = 0
    /\ rpl_cut = FALSE
    /\ ppl_out = NoParse
    /\ neg_out = NoChoice

NextRefs == DR_Request \/ RPL_Read \/ RPL_ReadEnd \/ RPL_ReadFail \/ DR_Build \/ NEG_Call

SpecRefs == InitRefs /\ [][NextRefs]_vars

-----------------------------------------------------------------------------
(* Inputs of FetchPackfile and unwrapSideBand *)

\* payloads of the frames of a response: a flush, pack data "P", "Q" and ""
\* on channel 1, progress "x" on channel 2, the error "E" on channel 3
SbPayloads == {<<>>, <<1, 80>>, <<1, 81>>, <<1>>, <<2, 120>>, <<3, 69>>}

\* what may follow the frames: nothing, half a header, a header below 4,
\* a frame cut short
SbTails == {<<>>, <<48, 48>>, <<48, 48, 48, 50>>, <<48, 48, 48, 55, 1, 80>>}

\* a response that is not side-band framed: the packfile itself, here the
\* 12-byte header of a version 2 pack of no objects
RawPack == Magic \o <<0, 0, 0, 2, 0, 0, 0, 0>>

InitSb ==
    /\ FnIdle
    /\ CloneIdle
    /\ RefsIdle
    /\ PackIdle
    /\ op \in {"FetchPackfile", "unwrapSideBand"}
    /\ in_frames \in SeqsUpTo(SbPayloads, MaxFrames)
    /\ in_tail \in (IF in_frames = <<>> THEN SbTails \cup {RawPack} ELSE SbTails)
    /\ body = <<>>
    /\ lines = <<>>
    /\ rpl_state = "idle"
    /\ rpl_reads = 0
    /\ rpl_cut = FALSE
    /\ ppl_out = NoParse
    /\ sb_data = WireOf(in_frames, in_tail)
    /\ sb_result = <<>>
    /\ sb_state = IF op = "FetchPackfile" THEN "request" ELSE "running"
    /\ sb_err = NoErr
    /\ sb_consumed = 0
    /\ fp_out = NoFetch

NextSb == FP_Request \/ SB_Step \/ FP_Return

SpecSb == InitSb /\ [][NextSb]_vars

-----------------------------------------------------------------------------
(* Inputs of ParsePackfile *)

\* most objects in a generated packfile
MaxEntries == 2

\* "abcd", and the SHA-1 of the blob object "abcd"
Abcd == <<97, 98, 99, 100>>
ShaAbcd ==
    <<133, 223, 80, 120, 93, 98, 211, 176, 90, 176, 61, 156, 191, 126, 74, 11, 73, 68, 151, 48>>

\* the delta of base size 4 and result size 7: Copy{0,4}, Insert{"XYZ"}
DeltaXYZ == <<4, 7, 144, 4, 3, 88, 89, 90>>

\* the objects a generated packfile is made of: type, the size its header
\* states, the bytes between header and zlib stream (the base of a delta), and
\* the bytes that are compressed
PackEntries ==
    {[type |-> 3, size |-> 4, pre |-> <<>>, content |-> Abcd],
     [type |-> 1, size |-> 1, pre |-> <<>>, content |-> <<99>>],
     [type |-> 2, size |-> 0, pre |-> <<>>, content |-> <<>>],
     [type |-> 4, size |-> 1, pre |-> <<>>, content |-> <<103>>],
     [type |-> 7, size |-> 8, pre |-> ShaAbcd, content |-> DeltaXYZ],
     [type |-> 6, size |-> 8, pre |-> <<16>>, content |-> DeltaXYZ],
     [type |-> 3, size |-> 21, pre |-> <<>>, content |-> Abcd],
     [type |-> 5, size |-> 1, pre |-> <<>>, content |-> <<99>>]}

RECURSIVE SizeRest(_)
\* the bytes of an object header after the first, for the size bits left
SizeRest(n) ==
    IF n < 128 THEN <<n>> ELSE <<128 + (n % 128)>> \o SizeRest(n \div 128)

\* the header of a pack object: type and size
ObjHeader(type, size) ==
    IF size < 16 THEN <<type * 16 + size>>
    ELSE <<128 + type * 16 + (size % 16)>> \o SizeRest(size \div 16)

EntryBytes(e) == ObjHeader(e.type, e.size) \o e.pre \o Deflate(e.content)

BE32Bytes(n) == <<(n \div 16777216) % 256, (n \div 65536) % 256, (n \div 256) % 256, n % 256>>

\* the 20 bytes that end a packfile (its checksum, which the parser never checks)
Trailer == [k \in 1..20 |-> 0]

\* the buffer: the entries behind a header, whole or damaged ("magic": XACK,
\* "version": 3, "count": one object more declared than present, "cut": the
\* last cut bytes missing, "short": only the first cut bytes present)
PackBytes(p) ==
    LET n == Len(p.entries) + (IF p.damage = "count" THEN 1 ELSE 0)
        full == (IF p.damage = "magic" THEN <<88, 65, 67, 75>> ELSE Magic)
                \o BE32Bytes(IF p.damage = "version" THEN 3 ELSE 2)
                \o BE32Bytes(n)
                \o Flatten([k \in 1..Len(p.entries) |-> EntryBytes(p.entries[k])])
                \o (IF p.trailer THEN Trailer ELSE <<>>)
    IN  IF p.damage = "cut" THEN SubSeq(full, 1, Len(full) - p.cut)
        ELSE IF p.damage = "short" THEN SubSeq(full, 1, p.cut)
        ELSE full

EntrySeqs == SeqsUpTo(PackEntries, MaxEntries)

PackInputs ==
    {[entries |-> es, damage |-> "none", cut |-> 0, trailer |-> t] :
        es \in EntrySeqs, t \in BOOLEAN}
    \cup {[entries |-> es, damage |-> d, cut |-> 0, trailer |-> FALSE] :
            es \in EntrySeqs, d \in {"magic", "version", "count"}}
    \cup UNION {{[entries |-> es, damage |-> "cut", cut |-> c, trailer |-> FALSE] :
                    c \in 1..Len(EntryBytes(es[Len(es)]))} : es \in EntrySeqs \ {<<>>}}
    \cup {[entries |-> <<>>, damage |-> "short", cut |-> c, trailer |-> FALSE] : c \in 0..11}

InitPack ==
    /\ FnIdle
    /\ CloneIdle
    /\ RefsIdle
    /\ SbIdle
    /\ op = "ParsePackfile"
    /\ in_frames = <<>>
    /\ in_tail = <<>>
    /\ body = <<>>
    /\ lines = <<>>
    /\ rpl_state = "idle"
    /\ rpl_reads = 0
    /\ rpl_cut = FALSE
    /\ ppl_out = NoParse
    /\ in_pack \in PackInputs
    /\ pp_data = PackBytes(in_pack)
    /\ pp_phase = "start"
    /\ pp_err = "none"
    /\ pp_count = 0
    /\ pp_offset = 0
    /\ pp_i = 0
    /\ store = <<>>

NextPack == PP_Header \/ PP_Entry

SpecPack == InitPack /\ [][NextPack]_vars

-----------------------------------------------------------------------------
(* CloneCommand.Execute of src/app/commands/clone.go.  Its stages are the    *)
(* functions above; the actions here are the statements of Execute between   *)
(* them: each takes the return value of the stage that ended and either      *)
(* returns its error or calls the next stage.                                *)

\* "NAK\n", the line a server answers the request with before the pack
NakLine == <<78, 65, 75, 10>>

\* the body of the upload-pack response for a pack: NAK, a progress frame,
\* the pack in one frame on channel 1, a flush
CloneResponse(p) ==
    MakePktLine(NakLine) \o MakePktLine(<<2, 120>>)
        \o MakePktLine(<<1>> \o p) \o MakePktLine(<<>>)

\* Execute up to the call of DiscoverReferences: the directory is made and
\* entered and initRepository runs, each of which can fail
CL_Init ==
    /\ op = "Clone"
    /\ cl_stage = "start"
    /\ \E outcome \in {"ok", "error"} :
         /\ cl_stage' = IF outcome = "ok" THEN "discover" ELSE "returned"
         /\ cl_err' = IF outcome = "ok" THEN "none" ELSE "init"
         /\ dr_state' = IF outcome = "ok" THEN "request" ELSE dr_state
    /\ UNCHANGED <<op, fnVars, cl_head, cl_checkout, pktVars, in_adv, references, neg_out,
                   sbVars, packVars>>

\* DiscoverReferences and NegotiateWithServer have ended: the error of either
\* is returned, else FetchPackfile is called
CL_Fetch ==
    /\ op = "Clone"
    /\ cl_stage = "discover"
    /\ dr_state \in {"error", "panic", "negotiated"}
    /\ LET e == IF dr_state = "panic" THEN "panic"
                ELSE IF dr_state = "error" THEN "discover"
                ELSE IF neg_out.err THEN "negotiate"
                ELSE "none"
       IN  /\ cl_stage' = IF e = "none" THEN "fetch"
                          ELSE IF e = "panic" THEN "crashed" ELSE "returned"
           /\ cl_err' = IF e = "panic" THEN "none" ELSE e
           /\ sb_state' = IF e = "none" THEN "request" ELSE sb_state
           /\ sb_data' = IF e = "none" THEN CloneResponse(PackBytes(in_pack)) ELSE sb_data
    /\ UNCHANGED <<op, fnVars, cl_head, cl_checkout, pktVars, refVars,
                   sb_result, sb_err, sb_consumed, fp_out, packVars>>

\* FetchPackfile has ended: its error is returned, fewer than 12 bytes are an
\* error, else ParsePackfile is called on the bytes
CL_Parse ==
    /\ op = "Clone"
    /\ cl_stage = "fetch"
    /\ fp_out.returned \/ sb_state = "panic"
    /\ LET e == IF sb_state = "panic" THEN "panic"
                ELSE IF fp_out.err THEN "fetch"
                ELSE IF Len(fp_out.data) < 12 THEN "short"
                ELSE "none"
       IN  /\ cl_stage' = IF e = "none" THEN "parse"
                          ELSE IF e = "panic" THEN "crashed" ELSE "returned"
           /\ cl_err' = IF e = "panic" THEN "none" ELSE e
           /\ pp_phase' = IF e = "none" THEN "start" ELSE pp_phase
           /\ pp_data' = IF e = "none" THEN fp_out.data ELSE pp_data
    /\ UNCHANGED <<op, fnVars, cl_head, cl_checkout, pktVars, refVars, sbVars,
                   in_pack, pp_err, pp_count, pp_offset, pp_i, store>>

\* ParsePackfile has ended: its error is returned, else setupHeadReference is
\* called, which writes two files and returns the error of either write
CL_SetupHead ==
    /\ op = "Clone"
    /\ cl_stage = "parse"
    /\ pp_phase \in {"done", "error"}
    /\ \E outcome \in {"ok", "error"} :
         IF pp_phase = "error"
         THEN /\ cl_stage' = "returned"
              /\ cl_err' = "parse"
              /\ cl_head' = cl_head
         ELSE /\ cl_head' = outcome
              /\ cl_stage' = IF outcome = "ok" THEN "checkout" ELSE "returned"
              /\ cl_err' = IF outcome = "ok" THEN "none" ELSE "head"
    /\ UNCHANGED <<op, fnVars, cl_checkout, pktVars, refVars, sbVars, packVars>>

\* checkoutWorkingDirectory is called, which reads the objects of the commit
\* from .git/objects and writes the files and can fail in both; its error is
\* printed as a warning, then "Repository cloned successfully!" is printed and
\* nil is returned
CL_Checkout ==
    /\ op = "Clone"
    /\ cl_stage = "checkout"
    /\ \E outcome \in {"ok", "error"} : cl_checkout' = outcome
    /\ cl_stage' = "returned"
    /\ cl_err' = "none"
    /\ UNCHANGED <<op, fnVars, cl_head, pktVars, refVars, sbVars, packVars>>

-----------------------------------------------------------------------------
(* Inputs of CloneCommand.Execute *)

\* the advertisements of the remote: none, HEAD alone, and HEAD with the
\* capability suffix followed by refs/heads/main
CloneAdverts ==
    {<<>>,
     <<[kind |-> "ref", sha |-> ShaA, name |-> NameHEAD, caps |-> FALSE]>>,
     <<[kind |-> "ref", sha |-> ShaA, name |-> NameHEAD, caps |-> TRUE],
       [kind |-> "ref", sha |-> ShaB, name |-> NameMain, caps |-> FALSE]>>}

\* the packs of the remote: no object; a commit and a blob; a blob and a
\* delta on it; a tag; and a response of 4 bytes only
ClonePacks ==
    {[entries |-> <<>>, damage |-> "none", cut |-> 0, trailer |-> TRUE],
     [entries |-> <<[type |-> 1, size |-> 1, pre |-> <<>>, content |-> <<99>>],
                    [type |-> 3, size |-> 4, pre |-> <<>>, content |-> Abcd]>>,
      damage |-> "none", cut |-> 0, trailer |-> TRUE],
     [entries |-> <<[type |-> 3, size |-> 4, pre |-> <<>>, content |-> Abcd],
                    [type |-> 7, size |-> 8, pre |-> ShaAbcd, content |-> DeltaXYZ]>>,
      damage |-> "none", cut |-> 0, trailer |-> TRUE],
     [entries |-> <<[type |-> 4, size |-> 1, pre |-> <<>>, content |-> <<103>>]>>,
      damage |-> "none", cut |-> 0, trailer |-> TRUE],
     [entries |-> <<>>, damage |-> "short", cut |-> 4, trailer |-> FALSE]}

InitClone ==
    /\ FnIdle
    /\ op = "Clone"
    /\ cl_stage = "start"
    /\ cl_err = "none"
    /\ cl_head = "none"
    /\ cl_checkout = "none"
    /\ in_adv \in CloneAdverts
    /\ dr_state = "idle"
    /\ references = <<>>
    /\ neg_out = NoChoice
    /\ in_frames = [k \in 1..Len(in_adv) |-> AdPayload(in_adv[k])]
    /\ in_tail = <<>>
    /\ body = WireOf(in_frames, in_tail)
    /\ lines = <<>>
    /\ rpl_state = "reading"
    /\ rpl_reads = 0
    /\ rpl_cut = FALSE
    /\ ppl_out = NoParse
    /\ SbIdle
    /\ in_pack \in ClonePacks
    /\ pp_data = <<>>
    /\ pp_phase = "idle"
    /\ pp_err = "none"
    /\ pp_count = 0
    /\ pp_offset = 0
    /\ pp_i = 0
    /\ store = <<>>

NextClone ==
    \/ CL_Init
    \/ DR_Request \/ RPL_Read \/ RPL_ReadEnd \/ RPL_ReadFail \/ DR_Build \/ NEG_Call
    \/ CL_Fetch
    \/ FP_Request \/ SB_Step \/ FP_Return
    \/ CL_Parse
    \/ PP_Header \/ PP_Entry
    \/ CL_SetupHead
    \/ CL_Checkout

SpecClone == InitClone /\ [][NextClone]_vars

-----------------------------------------------------------------------------
(* Inputs of parseObjectHeader *)

\* most bytes in a generated header
MaxHdrLen == 3

\* first and following bytes of headers, with and without the continuation
\* bit: 0x93, 0x01, 0x80, 0x7f, 0x35, 0xff
HdrBytes == {147, 1, 128, 127, 53, 255}

InitHdr ==
    /\ CloneIdle
    /\ RefsIdle
    /\ SbIdle
    /\ op = "parseObjectHeader"
    /\ in_frames = <<>>
    /\ in_tail = <<>>
    /\ body = <<>>
    /\ lines = <<>>
    /\ rpl_state = "idle"
    /\ rpl_reads = 0
    /\ rpl_cut = FALSE
    /\ ppl_out = NoParse
    /\ in_pack = NoPack
    /\ pp_data \in SeqsUpTo(HdrBytes, MaxHdrLen)
    /\ pp_phase = "idle"
    /\ pp_err = "none"
    /\ pp_count = 0
    /\ pp_offset = 0
    /\ pp_i = 0
    /\ store = <<>>
    /\ mpl_out = NoCall
    /\ poh_out = NoCall

NextHdr == POH_Call

SpecHdr == InitHdr /\ [][NextHdr]_vars

\* no generated buffer takes the parser to a Huffman-coded deflate block, which
\* the model of zlib does not decode
NoHuffman == pp_err # "huffman"

-----------------------------------------------------------------------------
(* Claims about discovery and negotiation, checked under SpecRefs *)

\* DiscoverReferences has returned a map, from a response that arrived whole
DiscoveredWhole ==
    /\ op = "DiscoverReferences"
    /\ dr_state \in {"built", "negotiated"}
    /\ ~rpl_cut
    /\ rpl_reads <= 1

\* C6: the map DiscoverReferences returns has, for every advertised reference
\* line, the key <ref-name> (NUL and capabilities removed) mapped to the
\* line's hash, and has no other key.
C6_DiscoveryMap ==
    DiscoveredWhole =>
        /\ \A k \in 1..Len(in_adv) :
             in_adv[k].kind = "ref" =>
                 /\ in_adv[k].name \in DOMAIN references
                 /\ references[in_adv[k].name] = in_adv[k].sha
        /\ DOMAIN references =
               {in_adv[k].name : k \in {j \in 1..Len(in_adv) : in_adv[j].kind = "ref"}}

\* the names of the selection policy, in the order they are tried
Priority == <<NameHEAD, NameMain, NameMaster>>

\* the two maps have the same entries for the names of the policy
SamePolicyKeys(m1, m2) ==
    \A k \in 1..Len(Priority) :
        /\ (Priority[k] \in DOMAIN m1) = (Priority[k] \in DOMAIN m2)
        /\ Priority[k] \in DOMAIN m1 => m1[Priority[k]] = m2[Priority[k]]

\* C7: NegotiateWithServer returns the hash of "HEAD" if the map has it, else
\* that of "refs/heads/main", else that of "refs/heads/master", else an error
\* and no hash; no other key of the map has any influence on the result.
C7_NegotiationPolicy ==
    neg_out.called =>
        LET present == {k \in 1..Len(Priority) : Priority[k] \in DOMAIN references}
            first == CHOOSE k \in present : \A j \in present : k <= j
        IN  /\ IF present = {}
               THEN neg_out.err /\ neg_out.sha = <<>>
               ELSE ~neg_out.err /\ neg_out.sha = references[Priority[first]]
            /\ \A m \in RefMaps :
                 SamePolicyKeys(m, references) => NegotiateWithServer(m) = neg_out

\* the map has only "refs/heads/master" of the policy's names, beside another
\* branch, and the hash of master was returned
C7_Witness ==
    /\ neg_out.called
    /\ DOMAIN references \cap {NameHEAD, NameMain, NameMaster, NameDev} = {NameMaster, NameDev}
    /\ ~neg_out.err
    /\ neg_out.sha = references[NameMaster]

-----------------------------------------------------------------------------
(* Claims about the pkt-line codec, checked under SpecPkt *)

\* the input is exactly one encoded frame, MakePktLine(p)
OneFrame == Len(in_frames) = 1 /\ in_tail = <<>>

\* ReadPktLines has returned and no Read reported a transport error
RplReturned == op = "ReadPktLines" /\ rpl_state # "reading" /\ ~rpl_cut

\* ParsePktLine alone does round-trip: ParsePktLine(MakePktLine(p)) is the Data
\* frame p, and the Flush frame for the empty p
ParsePktLineRoundTrip ==
    (op = "ParsePktLine" /\ ppl_out.status # "none" /\ OneFrame) =>
        ppl_out = IF in_frames[1] = <<>>
                  THEN [status |-> "ok", kind |-> "flush", payload |-> <<>>]
                  ELSE [status |-> "ok", kind |-> "data", payload |-> in_frames[1]]

\* C1: decoding MakePktLine(p) gives exactly one frame, the Data frame p byte
\* for byte (the Flush frame for the empty p), with ParsePktLine and with
\* ReadPktLines (here already when the frame arrives in a single read).
C1_RoundTrip ==
    /\ ParsePktLineRoundTrip
    /\ (RplReturned /\ OneFrame /\ rpl_reads <= 1) =>
           (rpl_state = "done" /\ lines = <<in_frames[1]>>)

\* what ReadPktLines returns when the whole stream arrives in one read
WholeRead == ProcessChunk(WireOf(in_frames, in_tail), <<>>)

\* C2: however a valid pkt-line stream is split into successive reads,
\* ReadPktLines returns the frames it returns when the stream arrives whole.
C2_SplitReassembly ==
    (RplReturned /\ in_tail = <<>>) =>
        (WholeRead.status = "ok" /\ rpl_state = "done" /\ lines = WholeRead.lines)

\* the characters of the lower-case hexadecimal digits
LowerHex == <<48, 49, 50, 51, 52, 53, 54, 55, 56, 57, 97, 98, 99, 100, 101, 102>>

\* n < 65536 as 4 lower-case hexadecimal digits, zero-padded
Hex4(n) ==
    <<LowerHex[((n \div 4096) % 16) + 1], LowerHex[((n \div 256) % 16) + 1],
      LowerHex[((n \div 16) % 16) + 1], LowerHex[(n % 16) + 1]>>

\* C16: MakePktLine returns "0000" for the empty payload, and for a payload
\* of 1 to 65516 bytes the 4 lower-case, zero-padded hexadecimal digits of
\* len(payload)+4 followed by the payload unchanged, len(payload)+4 bytes in all.
C16_Encoding ==
    mpl_out.called =>
        LET p == in_frames[1]
            out == mpl_out.out
        IN  /\ p = <<>> => out = <<48, 48, 48, 48>>
            /\ (p # <<>> /\ Len(p) <= 65516) =>
                   /\ Len(out) = Len(p) + 4
                   /\ SubSeq(out, 1, 4) = Hex4(Len(p) + 4)
                   /\ SubSeq(out, 5, Len(out)) = p

\* a payload of 4091 bytes was encoded, under the header "0fff"
C16_Witness ==
    /\ mpl_out.called
    /\ Len(in_frames[1]) = 4091
    /\ SubSeq(mpl_out.out, 1, 4) = <<48, 102, 102, 102>>
    /\ Len(mpl_out.out) = 4095

\* the longest payload of the format was encoded, under the header "fff0"
LongestEncoded ==
    (mpl_out.called /\ Len(in_frames[1]) = 65516) =>
        (SubSeq(mpl_out.out, 1, 4) = <<102, 102, 102, 48>> /\ Len(mpl_out.out) = 65520)

\* beyond the lengths of the format the length field grows: a payload of
\* 65532 bytes gets a header of 5 digits
LongHeader ==
    (mpl_out.called /\ Len(in_frames[1]) = 65532) =>
        (Len(mpl_out.out) = 65537 /\ SubSeq(mpl_out.out, 1, 5) = <<49, 48, 48, 48, 48>>)

\* ParsePktLine has returned, called on the bytes that follow the whole frames
PplOnTail == op = "ParsePktLine" /\ ppl_out.status # "none" /\ in_frames = <<>>

\* ReadPktLines has returned after a single Read that delivered the whole stream
RplWhole == RplReturned /\ rpl_reads <= 1

\* the stream ends with the length header "0002"
ShortLengthTail == in_tail = <<48, 48, 48, 50>>

\* C12: a 4-hex-digit length header L with 1 <= L < 4 makes decoding fail with
\* an error value, in ParsePktLine and in ReadPktLines: no frame is emitted,
\* the bytes are not skipped, the program does not crash.
C12_MalformedLength ==
    /\ (PplOnTail /\ ShortLengthTail) => ppl_out.status = "error"
    /\ (RplWhole /\ ShortLengthTail) => rpl_state = "error"

\* the stream ends inside a frame: with half a length header ("00"), or with
\* the header "0006" and one payload byte of two
PartialTail == in_tail \in {<<48, 48>>, <<48, 48, 48, 54, 97>>}

\* C13: a stream that ends with 1-3 bytes of a length header, or with a header
\* L and fewer than L-4 payload bytes, makes decoding fail with an error, in
\* ParsePktLine and in ReadPktLines, instead of returning the frames decoded
\* so far as a success.
C13_PartialFrameIsError ==
    /\ (PplOnTail /\ PartialTail) => ppl_out.status = "error"
    /\ (RplWhole /\ PartialTail) => rpl_state = "error"

-----------------------------------------------------------------------------
(* Claims about the side-band unwrapping, checked under SpecSb *)

RECURSIVE Channel1(_)
\* the channel-1 payloads of the frames, concatenated in order
Channel1(frames) ==
    IF frames = <<>> THEN <<>>
    ELSE (IF Head(frames) # <<>> /\ Head(frames)[1] = 1 THEN Tail(Head(frames)) ELSE <<>>)
         \o Channel1(Tail(frames))

\* C3: after unwrapSideBand has processed any prefix of the frames, result is
\* the concatenation, in arrival order, of the payloads of the channel-1
\* frames of that prefix, and holds nothing else.
C3_SideBandOrder ==
    (sb_state \in {"running", "done"} /\ sb_consumed <= Len(in_frames)) =>
        sb_result = Channel1(SubSeq(in_frames, 1, sb_consumed))

\* both frames are consumed: pack data "P" on channel 1, then a frame on
\* channel 2 or 3, of which nothing is in the result
C3_Witness ==
    /\ sb_state = "done"
    /\ sb_consumed = 2
    /\ Len(in_frames) >= 2
    /\ in_frames[1] = <<1, 80>>
    /\ in_frames[2] # <<>> /\ in_frames[2][1] \in {2, 3}
    /\ sb_result = <<80>>

\* the frames on channel 3
Channel3(frames) == {k \in 1..Len(frames) : frames[k] # <<>> /\ frames[k][1] = 3}

\* C4: when the input has a frame on channel 3, unwrapSideBand (and so
\* FetchPackfile) returns an error whose message is that frame's payload,
\* returns no packfile bytes, and consumes no frame after it.
C4_Channel3Fatal ==
    (sb_state \in {"done", "error", "panic"} /\ sb_err.kind \notin {"neterr", "status"}
        /\ Channel3(in_frames) # {}) =>
        LET k == CHOOSE k \in Channel3(in_frames) : \A j \in Channel3(in_frames) : k <= j
        IN  /\ sb_state = "error"
            /\ sb_err.msg = Tail(in_frames[k])
            /\ sb_result = <<>>
            /\ sb_consumed <= k
            /\ fp_out.returned => (fp_out.err /\ fp_out.data = <<>>)

\* the response body is the packfile itself, "PACK" at offset 0
RawBody == in_frames = <<>> /\ in_tail = RawPack

\* C14: a response body that is not side-band framed and begins with "PACK"
\* is returned unchanged by unwrapSideBand, and so by FetchPackfile, as the
\* packfile buffer: no error, no empty buffer.
C14_RawBodyFallback ==
    (RawBody /\ sb_state \in {"done", "error", "panic"}
        /\ sb_err.kind \notin {"neterr", "status"}) =>
        /\ sb_state = "done"
        /\ sb_result = RawPack
        /\ fp_out.returned => (~fp_out.err /\ fp_out.data = RawPack)

\* unwrapSideBand has returned or crashed, the request having got its response
SbEnded == sb_state \in {"done", "error", "panic"} /\ sb_err.kind \notin {"neterr", "status"}

\* the part of C12 for the pkt-line loop of unwrapSideBand: a length header
\* "0002" makes it return an error
MalformedLengthSideBand == (SbEnded /\ in_tail = <<48, 48, 48, 50>>) => sb_state = "error"

\* the part of C13 for unwrapSideBand: a body that ends with half a header
\* ("00") or with a frame cut short ("0007" and 2 bytes of 3) makes it return
\* an error
PartialFrameSideBand ==
    (SbEnded /\ in_tail \in {<<48, 48>>, <<48, 48, 48, 55, 1, 80>>}) => sb_state = "error"

-----------------------------------------------------------------------------
(* Claims about ParsePackfile, checked under SpecPack *)

\* ParsePackfile has returned
Returned == pp_phase \in {"done", "error"}

RECURSIVE CopyField(_, _, _, _, _, _)
\* the bytes of a Copy instruction selected by the bits bit..last of cmd,
\* least significant first: <<value, position after them>>
CopyField(delta, pos, cmd, bit, last, shift) ==
    IF bit > last THEN <<0, pos>>
    ELSE IF (cmd \div Pow2(bit)) % 2 = 1
    THEN LET r == CopyField(delta, pos + 1, cmd, bit + 1, last, shift + 8)
         IN  <<delta[pos + 1] * Pow2(shift) + r[1], r[2]>>
    ELSE CopyField(delta, pos, cmd, bit + 1, last, shift)

RECURSIVE ApplyInstructions(_, _, _, _)
\* the instructions of delta from the 0-based position pos on, applied to
\* base: Copy{baseOffset, length} appends base[baseOffset:baseOffset+length],
\* Insert{bytes} appends the bytes
ApplyInstructions(delta, pos, base, out) ==
    IF pos >= Len(delta) THEN out
    ELSE LET cmd == delta[pos + 1]
         IN  IF cmd >= 128
             THEN LET o == CopyField(delta, pos + 1, cmd, 0, 3, 0)
                      n == CopyField(delta, o[2], cmd, 4, 6, 0)
                      length == IF n[1] = 0 THEN 65536 ELSE n[1]
                  IN  ApplyInstructions(delta, n[2], base,
                                        out \o Slice(base, o[1], o[1] + length))
             ELSE ApplyInstructions(delta, pos + 1 + cmd, base,
                                    out \o Slice(delta, pos + 1, pos + 1 + cmd))

\* the object a delta resolves to against base: the two size varints are
\* skipped, the instructions applied
ApplyDelta(delta, base) ==
    ApplyInstructions(delta, SkipVarint(delta, SkipVarint(delta, 0) + 1) + 1, base, <<>>)

BlobAbcd == [type |-> 3, size |-> 4, pre |-> <<>>, content |-> Abcd]

\* the entry k of the pack is a delta whose base, the blob "abcd", is in the
\* pack: anywhere for a RefDelta, which names it by hash, and right before
\* the delta for the OfsDelta of relative offset 16
HasBase(es, k) ==
    \/ es[k].type = 7 /\ \E j \in 1..Len(es) : es[j].type = 3 /\ es[j].content = Abcd
    \/ es[k].type = 6 /\ k > 1 /\ es[k - 1] = BlobAbcd

\* the entries of a well-formed pack of blobs, trees, commits and resolvable deltas
DeltaPack(es) ==
    /\ \E k \in 1..Len(es) : es[k].type \in {6, 7}
    /\ \A k \in 1..Len(es) :
         \/ es[k].type \in {1, 2, 3} /\ es[k].size = Len(es[k].content)
         \/ es[k].type \in {6, 7} /\ HasBase(es, k)

\* C5: ParsePackfile resolves every delta of a pack against its base and
\* persists the resulting object: a pack of the blob "abcd" and a delta
\* [Copy{0,4}, Insert{"XYZ"}] on it ends with "abcdXYZ" in the object store.
C5_DeltaResolved ==
    (Returned /\ in_pack.damage = "none" /\ DeltaPack(in_pack.entries)) =>
        /\ pp_phase = "done"
        /\ \A k \in 1..Len(in_pack.entries) :
             in_pack.entries[k].type \in {6, 7} =>
                 \E j \in 1..Len(store) :
                     store[j].content = ApplyDelta(in_pack.entries[k].content, Abcd)

\* a buffer that ParsePackfile must reject on its header
BadHeader(data) ==
    \/ Len(data) < 12
    \/ Slice(data, 0, 4) # <<80, 65, 67, 75>>
    \/ BE32(data, 4) # 2

\* C8: for a buffer shorter than 12 bytes, or not starting with "PACK", or of
\* a version other than 2, ParsePackfile returns an error and persists nothing.
C8_HeaderValidation ==
    (pp_phase # "start" /\ BadHeader(pp_data)) => (pp_phase = "error" /\ store = <<>>)

\* a version 3 pack that holds objects was rejected
C8_Witness ==
    /\ pp_phase = "error"
    /\ in_pack.damage = "version"
    /\ Len(in_pack.entries) > 0
    /\ Slice(pp_data, 0, 4) = <<80, 65, 67, 75>>
    /\ BE32(pp_data, 4) = 3
    /\ store = <<>>

\* the buffer ends before the objects its header declares
Truncated(p) == p.damage \in {"cut", "count"}

\* C9: with a valid header, a buffer that ends before objectCount complete
\* entries is an error, and ParsePackfile returns success only after all
\* objectCount entries, deltas included, have been persisted.
C9_TruncatedIsError ==
    (Returned /\ ~BadHeader(pp_data)) =>
        /\ Truncated(in_pack) => pp_phase = "error"
        /\ pp_phase = "done" => Len(store) = pp_count

\* the GitObjectType an undeltified entry is to be persisted with
EntryTypeName(t) ==
    IF t = 1 THEN "commit" ELSE IF t = 2 THEN "tree" ELSE IF t = 3 THEN "blob" ELSE "tag"

\* C10: a well-formed pack of Commit, Tree, Blob and Tag entries is parsed
\* without error, and each entry's content is handed with its type to the
\* object store exactly once, in stream order.
C10_UndeltifiedPersisted ==
    (Returned /\ in_pack.damage = "none"
        /\ \A k \in 1..Len(in_pack.entries) :
             /\ in_pack.entries[k].type \in {1, 2, 3, 4}
             /\ in_pack.entries[k].size = Len(in_pack.entries[k].content)) =>
        /\ pp_phase = "done"
        /\ store = [k \in 1..Len(in_pack.entries) |->
                       [type |-> EntryTypeName(in_pack.entries[k].type),
                        content |-> in_pack.entries[k].content]]

\* the entries of the pack are all Commit, Tree or Blob entries
OnlyStorable(es) == \A k \in 1..Len(es) : es[k].type \in {1, 2, 3}

\* the entries whose header states a size other than the length of the content
WrongSize(es) == {k \in 1..Len(es) : es[k].size # Len(es[k].content)}

\* C11: when the decompressed content of an undeltified entry is not as long
\* as the inflatedSize of its header, ParsePackfile returns an error and does
\* not persist that entry (so the store holds the entries before it only).
C11_InflatedSizeChecked ==
    (Returned /\ in_pack.damage = "none" /\ OnlyStorable(in_pack.entries)
        /\ WrongSize(in_pack.entries) # {}) =>
        LET k == CHOOSE k \in WrongSize(in_pack.entries) :
                     \A j \in WrongSize(in_pack.entries) : k <= j
        IN  /\ pp_phase = "error"
            /\ Len(store) = k - 1

-----------------------------------------------------------------------------
(* Claims about CloneCommand.Execute, checked under SpecClone *)

\* the stages of a clone in their order, with for each whether it was run
\* and whether it succeeded
CloneStages ==
    <<[name |-> "discover", ran |-> dr_state # "idle",
       ok |-> dr_state \in {"built", "negotiated"}],
      [name |-> "negotiate", ran |-> neg_out.called, ok |-> neg_out.called /\ ~neg_out.err],
      [name |-> "fetch", ran |-> sb_state # "idle", ok |-> fp_out.returned /\ ~fp_out.err],
      [name |-> "parse", ran |-> pp_phase # "idle", ok |-> pp_phase = "done"],
      [name |-> "head", ran |-> cl_head # "none", ok |-> cl_head = "ok"],
      [name |-> "checkout", ran |-> cl_checkout # "none", ok |-> cl_checkout = "ok"]>>

\* Execute has printed "Repository cloned successfully!" and returned nil
CloneSucceeded == op = "Clone" /\ cl_stage = "returned" /\ cl_err = "none"

\* the part of C15 that holds: a stage runs only after the stage before it
\* has succeeded, and a returned error is that of the one stage that failed
CloneFailFast ==
    /\ \A k \in 2..Len(CloneStages) : CloneStages[k].ran => CloneStages[k - 1].ok
    /\ \A k \in 1..Len(CloneStages) :
         (cl_stage = "returned" /\ cl_err = CloneStages[k].name) =>
             (CloneStages[k].ran /\ ~CloneStages[k].ok)

\* C15: Execute runs discovery, negotiation, fetch, parse, HEAD setup and
\* checkout in this order, returns the first error and runs no later stage,
\* and reports success only if every stage succeeded and every object of the
\* packfile is persisted.
C15_CloneAllOrError ==
    /\ CloneFailFast
    /\ CloneSucceeded =>
           /\ \A k \in 1..Len(CloneStages) : CloneStages[k].ok
           /\ Len(store) = Len(in_pack.entries)

-----------------------------------------------------------------------------
(* Claims about parseObjectHeader, checked under SpecHdr *)

\* parseObjectHeader has returned, called on the bytes 0x93 0x01
VectorParsed == poh_out.called /\ pp_data = <<147, 1>>

\* C17, as amended: parseObjectHeader applied to the bytes 0x93 0x01 returns
\* the type Commit (1), the size 19, and consumes 2 bytes.
C17_TestVector == VectorParsed => poh_out.out = <<1, 19, 2>>

\* the vector was parsed, and both of its bytes were consumed
C17_Witness == VectorParsed /\ poh_out.out[3] = 2

\* C17, as stated: parseObjectHeader applied to the bytes 0x93 0x01 returns
\* the type Blob (3), the size 19, and consumes 2 bytes.
C17_TestVectorAsStated == VectorParsed => poh_out.out = <<3, 19, 2>>

\* the 1-based index of the first byte of data that has bit 7 clear, 0 when
\* there is none
FirstClear(data) ==
    IF \E j \in 1..Len(data) : data[j] < 128
    THEN CHOOSE j \in 1..Len(data) : data[j] < 128 /\ \A i \in 1..(j - 1) : data[i] >= 128
    ELSE 0

RECURSIVE SizeSum(_, _)
\* the sum over i in 2..n of (data[i] & 0x7F) * 2^(4 + 7*(i-2))
SizeSum(data, n) ==
    IF n < 2 THEN 0 ELSE SizeSum(data, n - 1) + (data[n] % 128) * Pow2(4 + 7 * (n - 2))

\* the first half of C18: a header that ends with a byte with bit 7 clear is
\* decoded to its type, its size and its length
HeaderDecoded ==
    (poh_out.called /\ FirstClear(pp_data) > 0) =>
        LET n == FirstClear(pp_data)
        IN  poh_out.out = <<(pp_data[1] \div 16) % 8, (pp_data[1] % 16) + SizeSum(pp_data, n), n>>

\* C18: parseObjectHeader returns type = (b0 >> 4) & 7, size = (b0 & 0x0F) +
\* sum of (bi & 0x7F) * 2^(4 + 7*(i-1)) and consumed = k+1 for a header b0..bk
\* that ends with the first byte with bit 7 clear; for an empty input and for
\* one that ends while the continuation bit is set, it returns consumed = 0.
C18_VarintRule ==
    /\ HeaderDecoded
    /\ (poh_out.called /\ FirstClear(pp_data) = 0) => poh_out.out[3] = 0

-----------------------------------------------------------------------------
(* Claims about the control flow of ParsePackfile, checked under SpecPack *)

\* the place of a phase in the order Header, IterateEntries,
\* DeltaResolutionPass, Done; the model's "start" is Header, "entries" is
\* IterateEntries, and no state of the code is the DeltaResolutionPass
PhaseRank(ph) ==
    IF ph = "start" THEN 1 ELSE IF ph = "entries" THEN 2 ELSE IF ph = "resolve" THEN 3 ELSE 4

\* C19: ParsePackfile goes through Header, IterateEntries (i counting up),
\* DeltaResolutionPass and Done in this order: a phase is left only for the
\* next one or for Fail, no phase is entered again, and Done is entered only
\* from DeltaResolutionPass.
C19_PhaseOrder ==
    [][/\ (pp_phase' # pp_phase) =>
              /\ pp_phase \in {"start", "entries", "resolve"}
              /\ \/ pp_phase' = "error"
                 \/ pp_phase' # "error" /\ PhaseRank(pp_phase') = PhaseRank(pp_phase) + 1
       /\ (pp_phase = "entries" /\ pp_phase' = "entries") => pp_i' = pp_i + 1]_vars

\* the part of C19 that holds: the phases the code has are passed in their
\* order, none is entered again, and Done and Fail are final
PhasesForward ==
    [][/\ (pp_phase' # pp_phase) =>
              /\ pp_phase \in {"start", "entries"}
              /\ \/ pp_phase' = "error"
                 \/ pp_phase' # "error" /\ PhaseRank(pp_phase') > PhaseRank(pp_phase)
       /\ (pp_phase = "entries" /\ pp_phase' = "entries") => pp_i' = pp_i + 1]_vars

\* the entry loop has been entered
InLoop == pp_count > 0

\* in the states of the entry loop the offset is within the buffer, and no
\* more entries have been processed than the header declares and than bytes
\* have been consumed
OffsetInRange ==
    InLoop =>
        /\ 12 <= pp_offset /\ pp_offset <= Len(pp_data)
        /\ pp_i <= pp_count
        /\ pp_i <= pp_offset - 12
        /\ pp_phase = "entries" => pp_i < pp_count

\* a pass of the loop keeps every value of offset between its start and the
\* end of the buffer, never moves it back, and moves it forward when it
\* processes its entry, which is then one of at most objectCount and of at
\* most len(data)-12
OffsetAdvances ==
    pp_phase = "entries" =>
        /\ \A o \in PassOffsets(pp_data, pp_offset) : pp_offset <= o /\ o <= Len(pp_data)
        /\ pp_offset' >= pp_offset
        /\ pp_phase' # "error" =>
               /\ pp_offset' > pp_offset
               /\ pp_i + 1 <= pp_count
               /\ pp_i + 1 <= pp_offset' - 12
               /\ pp_offset' <= Len(pp_data)

====
